---- MODULE Spec2Model ----
(***************************************************************************)
(* Scoring and progression core of the math teaching game: answer          *)
(* evaluation (AnswerEvaluationService, GeminiService), the enhanced chat   *)
(* pipeline (EnhancedAIService, PersonalizationService), the stored and    *)
(* the client-side character state (CharacterService, DataController,      *)
(* MathTeachingGame) and the recommendation engine                         *)
(* (AdaptiveLearningService).                                              *)
(*                                                                         *)
(* Texts are modelled by what the code reads of them: the set of indicator *)
(* phrases String.includes finds in them, their length and their           *)
(* whitespace word count.  Phrases are written in romaji; the comment next *)
(* to each gives the literal of the source.                                *)
(***************************************************************************)
EXTENDS Integers, Sequences, FiniteSets, TLC

VARIABLES
    gainIn,       \* calculateExperienceGain: the answer length under test
    gainOut,      \* calculateExperienceGain: quality -> result, for the qualities applied
    evalReq,      \* evaluateAnswer: the service instance and the EvaluationParams
    evalPc,       \* evaluateAnswer: "start", "awaitAI" (the awaited Gemini call), "done"
    evalOut,      \* evaluateAnswer: what the caller gets
    db,           \* the user's characterState row (Prisma), exists = FALSE before creation
    client,       \* MathTeachingGame's local `character` state
    pending,      \* submitExplanation between its local update and its server calls
    last,         \* the last data operation; of an experience operation also its
                  \* arguments and the states it started from
    maxGainSeen,  \* history of SpecProgress: the largest expGain of its calls so far
    enhReq,       \* EnhancedAIService.processRequest: the request and its environment
    enhPc,        \* processRequest: where the call is
    enhOut,       \* processRequest: the response
    recOut,       \* generateRecommendations: what the caller gets
    pathOut,      \* generateLearningPath: what the caller gets
    qReq,         \* MathQuestionService.generateQuestion: the parameters
    qOut,         \* generateQuestion: what the caller gets
    respReq,      \* generateResponse: the quality and the topic
    respOut,      \* generateResponse: the reply it builds
    metricsOut,   \* calculateLearningMetrics: what the caller gets
    calls         \* the addExperience calls in progress, per request

gainVars == <<gainIn, gainOut>>
evalVars == <<evalReq, evalPc, evalOut>>
charVars == <<db, client, pending, last, maxGainSeen>>
enhVars == <<enhReq, enhPc, enhOut>>
recVars == <<recOut, pathOut>>
questionVars == <<qReq, qOut>>
respVars == <<respReq, respOut>>
metricsVars == <<metricsOut>>
concVars == <<calls>>
vars == <<gainIn, gainOut, evalReq, evalPc, evalOut, db, client, pending, last,
          maxGainSeen, enhReq, enhPc, enhOut, recOut, pathOut, qReq, qOut,
          respReq, respOut, metricsOut, calls>>

NoValue == "none"

Min(a, b) == IF a < b THEN a ELSE b
Max(a, b) == IF a > b THEN a ELSE b

---------------------------------------------------------------------------
(* Domain enumerations                                                     *)

Topics == {"algebra", "geometry", "functions", "probability"}
Qualities == {"excellent", "good", "average", "poor"}
Moods == {"curious", "happy", "confused", "excited"}

---------------------------------------------------------------------------
(* Bounds of the model                                                     *)

MaxAnswerLen == 120   \* answer lengths 0..MaxAnswerLen (thresholds 50 and 100 inside)
MaxPhrases == 2       \* indicator phrases one user answer contains
MaxMarks == 2         \* question marks, and exclamation marks, in one message
MaxHistory == 4       \* messages in the conversation history of one question request
MaxSessionProblems == 7   \* answers submitted in one play session
MaxProblems == 1      \* addExperience calls on one stored row of the data API
MaxProgressCalls == 4 \* addExperience calls per run from the initial state
LargeGain == 250      \* an expGain far above what an evaluation yields

---------------------------------------------------------------------------
(* AnswerEvaluationService: the rule-based scoring functions               *)

\* keywords[topic], one representative keyword per topic:
\* houteishiki = "方程式", zukei = "図形", kansuu = "関数", kakuritsu = "確率"
TopicKeywords(topic) ==
    CASE topic = "algebra" -> {"houteishiki"}
      [] topic = "geometry" -> {"zukei"}
      [] topic = "functions" -> {"kansuu"}
      [] topic = "probability" -> {"kakuritsu"}
      [] OTHER -> {}

\* tatoeba = "例えば", tsumari = "つまり"
exampleIndicators == {"tatoeba", "tsumari"}
\* mazu = "まず"
stepIndicators == {"mazu"}
\* desu = "です"
politeIndicators == {"desu"}
\* tsumari = "つまり"
clarityIndicators == {"tsumari"}

AnswerPhrases ==
    UNION {TopicKeywords(t) : t \in Topics} \cup exampleIndicators
        \cup stepIndicators \cup politeIndicators \cup clarityIndicators

hasTopicKeywords(answer, topic) ==
    \E keyword \in TopicKeywords(topic) : keyword \in answer.includes

hasExamples(answer) == \E indicator \in exampleIndicators : indicator \in answer.includes

hasStepByStep(answer) == \E indicator \in stepIndicators : indicator \in answer.includes

isPoliteAndClear(answer) ==
    \/ \E indicator \in politeIndicators : indicator \in answer.includes
    \/ \E indicator \in clarityIndicators : indicator \in answer.includes

AnswerScore(answer, topic) ==
    (IF answer.wordCount > 50 THEN 2 ELSE IF answer.wordCount > 20 THEN 1 ELSE 0)
    + (IF hasTopicKeywords(answer, topic) THEN 2 ELSE 0)
    + (IF hasExamples(answer) THEN 1 ELSE 0)
    + (IF hasStepByStep(answer) THEN 1 ELSE 0)
    + (IF isPoliteAndClear(answer) THEN 1 ELSE 0)

\* the thresholds compared with > where the code has >=
assessAnswerQuality_Strict(answer, topic) ==
    LET score == AnswerScore(answer, topic)
    IN  IF score > 6 THEN "excellent"
        ELSE IF score > 4 THEN "good"
        ELSE IF score > 2 THEN "average"
        ELSE "poor"

assessAnswerQuality(answer, topic) ==
    LET score == AnswerScore(answer, topic)
    IN  IF score >= 6 THEN "excellent"
        ELSE IF score >= 4 THEN "good"
        ELSE IF score >= 2 THEN "average"
        ELSE "poor"

baseExp(quality) ==
    CASE quality = "excellent" -> 25
      [] quality = "good" -> 15
      [] quality = "average" -> 8
      [] quality = "poor" -> 3

\* the bonuses added up instead of the else-if
calculateExperienceGain_Cumulative(quality, answerLength) ==
    LET exp == baseExp(quality)
               + (IF answerLength > 100 THEN 5 ELSE 0)
               + (IF answerLength > 50 THEN 2 ELSE 0)
    IN  Min(exp, 30)

calculateExperienceGain(quality, answerLength) ==
    LET exp == baseExp(quality)
               + (IF answerLength > 100 THEN 5 ELSE IF answerLength > 50 THEN 2 ELSE 0)
    IN  Min(exp, 30)

\* a poor answer improves nothing
calculateUnderstandingImprovement_PoorZero(quality) ==
    CASE quality = "excellent" -> 8
      [] quality = "good" -> 5
      [] quality = "average" -> 3
      [] quality = "poor" -> 0

calculateUnderstandingImprovement(quality) ==
    CASE quality = "excellent" -> 8
      [] quality = "good" -> 5
      [] quality = "average" -> 3
      [] quality = "poor" -> 1

\* an average answer leaves the mood as it was
determineNewMood_Sticky(quality, currentMood) ==
    CASE quality = "excellent" -> "excited"
      [] quality = "good" -> "happy"
      [] quality = "average" -> currentMood
      [] quality = "poor" -> "confused"

determineNewMood(quality, currentMood) ==
    CASE quality = "excellent" -> "excited"
      [] quality = "good" -> "happy"
      [] quality = "average" -> "curious"
      [] quality = "poor" -> "confused"

---------------------------------------------------------------------------
(* GeminiService: the keyword analysis of the AI's evaluation text          *)

\* sugoi = "すごい", arigatou = "ありがとう"
positiveKeywords == {"sugoi", "arigatou"}
\* naruhodo = "なるほど"
encouragingKeywords == {"naruhodo"}
\* uun = "うーん", muzukashii = "難しい"
confusedKeywords == {"uun", "muzukashii"}
\* sugoi = "すごい"
excitedKeywords == {"sugoi"}
\* arigatou = "ありがとう", naruhodo = "なるほど"
happyKeywords == {"arigatou", "naruhodo"}

ResponsePhrases == positiveKeywords \cup encouragingKeywords \cup confusedKeywords
                       \cup excitedKeywords \cup happyKeywords

analyzeResponseQuality(aiResponse, userAnswer) ==
    LET positiveCount == Cardinality({k \in positiveKeywords : k \in aiResponse.includes})
        encouragingCount == Cardinality({k \in encouragingKeywords : k \in aiResponse.includes})
        confusedCount == Cardinality({k \in confusedKeywords : k \in aiResponse.includes})
        qualityScore ==
            (IF positiveCount >= 2 THEN 3 ELSE IF positiveCount >= 1 THEN 2 ELSE 0)
            + (IF encouragingCount >= 1 THEN 1 ELSE 0)
            - (IF confusedCount >= 2 THEN 2 ELSE 0)
            + (IF userAnswer.length > 100 THEN 1 ELSE 0)
    IN  IF qualityScore >= 4 THEN "excellent"
        ELSE IF qualityScore >= 2 THEN "good"
        ELSE IF qualityScore >= 0 THEN "average"
        ELSE "poor"

determineMoodFromResponse(response) ==
    IF \E keyword \in excitedKeywords : keyword \in response.includes THEN "excited"
    ELSE IF \E keyword \in confusedKeywords : keyword \in response.includes THEN "confused"
    ELSE IF \E keyword \in happyKeywords : keyword \in response.includes THEN "happy"
    ELSE "curious"

---------------------------------------------------------------------------
(* AnswerEvaluationService.evaluateAnswer                                  *)

\* (wordCount, length) of the answers under test: answer.trim().split(/\s+/).length
\* is 1 for the empty answer, and w words take at least 2w - 1 characters.
AnswerShapes ==
    { <<1, 0>>, <<1, 4>>, <<20, 50>>, <<21, 100>>, <<50, 101>>, <<51, 101>> }

\* every phrase of AnswerPhrases is at least two characters long
UserAnswers ==
    { [includes |-> inc, wordCount |-> sh[1], length |-> sh[2]] :
        inc \in {i \in SUBSET AnswerPhrases : Cardinality(i) <= MaxPhrases},
        sh \in AnswerShapes }

WellFormedAnswer(answer) == answer.length >= 2 * Cardinality(answer.includes)

AIEvaluations == { [includes |-> inc] : inc \in SUBSET ResponsePhrases }

NoResult ==
    [status |-> "none", aiOutcome |-> "none", path |-> "none", quality |-> "none",
     experienceGain |-> 0, newMood |-> "none", understandingImprovement |-> 0]

\* the constructor's catch block switching the fallback off
fallbackEnabled_Off == FALSE

fallbackEnabled == TRUE

evaluateWithFallback(params) ==
    LET quality == assessAnswerQuality(params.userAnswer, params.topic)
    IN  [status |-> "returned", aiOutcome |-> "none", path |-> "fallback",
         quality |-> quality,
         experienceGain |-> calculateExperienceGain(quality, params.userAnswer.length),
         newMood |-> determineNewMood(quality, params.mood),
         understandingImprovement |-> calculateUnderstandingImprovement(quality)]

\* lines 75-80: the code after the try block
FallbackOrThrow(params, aiOutcome) ==
    IF fallbackEnabled
    THEN [evaluateWithFallback(params) EXCEPT !.aiOutcome = aiOutcome]
    ELSE [NoResult EXCEPT !.status = "threw", !.aiOutcome = aiOutcome]

EvalInit ==
    /\ evalReq \in { r \in [geminiService : BOOLEAN, userAnswer : UserAnswers,
                            topic : Topics, mood : Moods] :
                       WellFormedAnswer(r.userAnswer) }
    /\ evalPc = "start"
    /\ evalOut = NoResult

\* this.geminiService is null: straight to the rule-based evaluation
EvaluateWithoutGemini ==
    /\ evalPc = "start"
    /\ ~evalReq.geminiService
    /\ evalOut' = FallbackOrThrow(evalReq, "notConfigured")
    /\ evalPc' = "done"
    /\ UNCHANGED <<evalReq, gainVars, charVars, enhVars, recVars, questionVars, respVars, metricsVars, concVars>>

\* await this.geminiService.evaluateAnswer(...)
CallGemini ==
    /\ evalPc = "start"
    /\ evalReq.geminiService
    /\ evalPc' = "awaitAI"
    /\ UNCHANGED <<evalReq, evalOut, gainVars, charVars, enhVars, recVars, questionVars, respVars, metricsVars, concVars>>

\* the AI call resolves with the text `evaluation`
GeminiReturns(evaluation) ==
    /\ evalPc = "awaitAI"
    /\ LET quality == analyzeResponseQuality(evaluation, evalReq.userAnswer)
           mood == determineMoodFromResponse(evaluation)
       IN  evalOut' =
              [status |-> "returned", aiOutcome |-> "ok", path |-> "ai",
               quality |-> quality,
               experienceGain |->
                   calculateExperienceGain(quality, evalReq.userAnswer.length),
               newMood |-> mood,
               understandingImprovement |-> calculateUnderstandingImprovement(quality)]
    /\ evalPc' = "done"
    /\ UNCHANGED <<evalReq, gainVars, charVars, enhVars, recVars, questionVars, respVars, metricsVars, concVars>>

\* the AI call rejects (transport error, quota, invalid key): caught at line 71
GeminiThrows ==
    /\ evalPc = "awaitAI"
    /\ evalOut' = FallbackOrThrow(evalReq, "threw")
    /\ evalPc' = "done"
    /\ UNCHANGED <<evalReq, gainVars, charVars, enhVars, recVars, questionVars, respVars, metricsVars, concVars>>

---------------------------------------------------------------------------
(* CharacterService: the stored character state                            *)

NoTopic == "undefined"

NoRow ==
    [exists |-> FALSE, level |-> 0, experience |-> 0,
     understandingAlgebra |-> 0, understandingGeometry |-> 0,
     understandingFunctions |-> 0, understandingProbability |-> 0,
     mood |-> "none", totalProblems |-> 0]

createCharacterState ==
    [exists |-> TRUE, level |-> 1, experience |-> 0,
     understandingAlgebra |-> 0, understandingGeometry |-> 0,
     understandingFunctions |-> 0, understandingProbability |-> 0,
     mood |-> "curious", totalProblems |-> 0]

\* findUnique, and createCharacterState when there is no row
getCharacterState(row) == IF row.exists THEN row ELSE createCharacterState

\* prisma.characterState.update with data = updateData (the row must exist)
updateCharacterState(row, updateData) ==
    [f \in DOMAIN row |-> IF f \in DOMAIN updateData THEN updateData[f] ELSE row[f]]

UnderstandingField(topic) ==
    CASE topic = "algebra" -> "understandingAlgebra"
      [] topic = "geometry" -> "understandingGeometry"
      [] topic = "functions" -> "understandingFunctions"
      [] topic = "probability" -> "understandingProbability"

\* the level is set to newLevel, without the one-level-per-call cap
addExperience_NoCap(currentState, expGain, topic) ==
    LET newExperience == currentState.experience + expGain
        newLevel == (newExperience \div 100) + 1
        updateData == [experience |-> newExperience,
                       level |-> newLevel,
                       totalProblems |-> currentState.totalProblems + 1]
        understandingGain == Min(5, expGain)
    IN  IF topic \in Topics
        THEN updateCharacterState(currentState,
                 [f \in DOMAIN updateData \cup {UnderstandingField(topic)} |->
                     IF f \in DOMAIN updateData THEN updateData[f]
                     ELSE Min(100, currentState[f] + understandingGain)])
        ELSE updateCharacterState(currentState, updateData)

\* Math.max where the code has Math.min: every call levels up
addExperience_AlwaysLevelUp(currentState, expGain, topic) ==
    LET newExperience == currentState.experience + expGain
        newLevel == (newExperience \div 100) + 1
        updateData == [experience |-> newExperience,
                       level |-> Max(newLevel, currentState.level + 1),
                       totalProblems |-> currentState.totalProblems + 1]
        understandingGain == Min(5, expGain)
    IN  IF topic \in Topics
        THEN updateCharacterState(currentState,
                 [f \in DOMAIN updateData \cup {UnderstandingField(topic)} |->
                     IF f \in DOMAIN updateData THEN updateData[f]
                     ELSE Min(100, currentState[f] + understandingGain)])
        ELSE updateCharacterState(currentState, updateData)

\* the understanding is added without Math.min(100, ...)
addExperience_NoClamp(currentState, expGain, topic) ==
    LET newExperience == currentState.experience + expGain
        newLevel == (newExperience \div 100) + 1
        updateData == [experience |-> newExperience,
                       level |-> Min(newLevel, currentState.level + 1),
                       totalProblems |-> currentState.totalProblems + 1]
        understandingGain == Min(5, expGain)
    IN  IF topic \in Topics
        THEN updateCharacterState(currentState,
                 [f \in DOMAIN updateData \cup {UnderstandingField(topic)} |->
                     IF f \in DOMAIN updateData THEN updateData[f]
                     ELSE currentState[f] + understandingGain])
        ELSE updateCharacterState(currentState, updateData)

\* the experience is replaced by the gain, not added to
addExperience_Overwrite(currentState, expGain, topic) ==
    LET newExperience == expGain
        newLevel == (newExperience \div 100) + 1
        updateData == [experience |-> newExperience,
                       level |-> Min(newLevel, currentState.level + 1),
                       totalProblems |-> currentState.totalProblems + 1]
        understandingGain == Min(5, expGain)
    IN  IF topic \in Topics
        THEN updateCharacterState(currentState,
                 [f \in DOMAIN updateData \cup {UnderstandingField(topic)} |->
                     IF f \in DOMAIN updateData THEN updateData[f]
                     ELSE Min(100, currentState[f] + understandingGain)])
        ELSE updateCharacterState(currentState, updateData)

\* CharacterService.addExperience on the state getCharacterState returned
addExperience(currentState, expGain, topic) ==
    LET newExperience == currentState.experience + expGain
        newLevel == (newExperience \div 100) + 1
        updateData == [experience |-> newExperience,
                       level |-> Min(newLevel, currentState.level + 1),
                       totalProblems |-> currentState.totalProblems + 1]
        understandingGain == Min(5, expGain)
    IN  IF topic \in Topics
        THEN updateCharacterState(currentState,
                 [f \in DOMAIN updateData \cup {UnderstandingField(topic)} |->
                     IF f \in DOMAIN updateData THEN updateData[f]
                     ELSE Min(100, currentState[f] + understandingGain)])
        ELSE updateCharacterState(currentState, updateData)

validMoods == {"curious", "happy", "confused", "excited"}

---------------------------------------------------------------------------
(* MathTeachingGame: the client's local character state                    *)

\* JavaScript's %: the sign of the result is the sign of the dividend
JsRem(a, b) == IF a >= 0 THEN a % b ELSE 0 - ((0 - a) % b)

\* useState's initial value
InitialCharacter ==
    [level |-> 1, experience |-> 0, maxExp |-> 100,
     understanding |-> [t \in Topics |-> 0],
     mood |-> "curious", totalProblems |-> 0]

\* the effect that copies the server's characterState into `character`
SyncWithServer(characterState) ==
    [level |-> characterState.level,
     experience |-> characterState.experience,
     maxExp |-> characterState.level * 100,
     understanding |-> [t \in Topics |-> characterState[UnderstandingField(t)]],
     mood |-> characterState.mood,
     totalProblems |-> characterState.totalProblems]

\* the setCharacter updater of the component's updateCharacterState
LocalUpdateCharacterState(prev, expGain, newMood, currentTopic) ==
    LET newExp == prev.experience + expGain
        newLevel == (newExp \div 100) + 1
    IN  [prev EXCEPT
            !.experience = JsRem(newExp, 100),
            !.level = newLevel,
            !.understanding =
                IF currentTopic \in DOMAIN prev.understanding
                THEN [@ EXCEPT ![currentTopic] = Min(@ + expGain, 100)]
                ELSE @,
            !.mood = newMood,
            !.totalProblems = @ + 1]

---------------------------------------------------------------------------
(* The data API (DataController, GameDataContext) and submitExplanation    *)

\* expGain of a direct POST /character/experience; -1 is rejected with 400
DataGains == {-1, 3, LargeGain}

DataTopics == Topics \cup {NoTopic}

\* mood of PUT /character/mood: "" is rejected with 400, "angry" by the service
MoodInputs == {"happy", "", "angry"}

\* bodies of PUT /character, which the controller passes on as they are
RawPayloads ==
    { [mood |-> "angry"],
      [level |-> 0, experience |-> 0,
       understandingAlgebra |-> 150, understandingGeometry |-> 0,
       understandingFunctions |-> 0, understandingProbability |-> 0,
       mood |-> "curious", totalProblems |-> 0],
      [level |-> 2, experience |-> 199,
       understandingAlgebra |-> 98, understandingGeometry |-> 100,
       understandingFunctions |-> 96, understandingProbability |-> 99,
       mood |-> "curious", totalProblems |-> 0] }

ChatAnswerLengths == {10}

\* what callAPI("answer") hands to submitExplanation: the evaluation of the
\* answer, the mock data of its catch block, or a reply with a foreign expGain
ChatData ==
    { [quality |-> q, expGain |-> calculateExperienceGain(q, n),
       mood |-> determineNewMood(q, "curious")] :
          q \in Qualities, n \in ChatAnswerLengths }
    \cup { [quality |-> "none", expGain |-> 24, mood |-> "happy"],
           [quality |-> "none", expGain |-> 0, mood |-> "curious"],
           [quality |-> "none", expGain |-> LargeGain, mood |-> "curious"] }

NoOp ==
    [op |-> "none", ok |-> FALSE, expGain |-> 0, topic |-> NoTopic,
     quality |-> "none", pre |-> NoRow, preClient |-> InitialCharacter]

\* an experience operation, with the states it starts from
Op(name, ok, expGain, topic, quality) ==
    [op |-> name, ok |-> ok, expGain |-> expGain, topic |-> topic,
     quality |-> quality, pre |-> db, preClient |-> client]

\* any other operation
OtherOp(name, ok) == [NoOp EXCEPT !.op = name, !.ok = ok]

NoPending ==
    [active |-> FALSE, expGain |-> 0, mood |-> "none", topic |-> NoTopic]

CharIdle ==
    /\ db = NoRow
    /\ client = InitialCharacter
    /\ pending = NoPending
    /\ last = NoOp
    /\ maxGainSeen = 0

\* GameDataContext.refreshAllData: GET /character creates the row if missing
RefreshAllData ==
    /\ ~pending.active
    /\ db' = getCharacterState(db)
    /\ client' = SyncWithServer(db')
    /\ last' = OtherOp("getCharacterState", TRUE)
    /\ UNCHANGED <<pending, maxGainSeen, gainVars, evalVars, enhVars, recVars, questionVars, respVars, metricsVars, concVars>>

\* DataController.addExperience, CharacterService.addExperience and the
\* context's setCharacterState(updatedState)
AddExperienceRequest(experience, topic) ==
    IF experience < 0
    THEN /\ last' = Op("addExperience", FALSE, experience, topic, "none")
         /\ UNCHANGED <<db, client, pending, gainVars, evalVars, enhVars, recVars, questionVars, respVars, metricsVars, concVars>>
    ELSE /\ db' = addExperience(getCharacterState(db), experience, topic)
         /\ client' = SyncWithServer(db')
         /\ last' = Op("addExperience", TRUE, experience, topic, "none")
         /\ UNCHANGED <<pending, gainVars, evalVars, enhVars, recVars, questionVars, respVars, metricsVars, concVars>>

AddExperience(experience, topic) ==
    /\ ~pending.active
    /\ db.totalProblems < MaxProblems
    /\ AddExperienceRequest(experience, topic)
    /\ UNCHANGED maxGainSeen

\* DataController.updateMood and CharacterService.updateMood
UpdateMood(mood) ==
    /\ ~pending.active
    /\ IF mood /= "" /\ mood \in validMoods /\ db.exists
       THEN /\ db' = updateCharacterState(db, [mood |-> mood])
            /\ client' = SyncWithServer(db')
            /\ last' = OtherOp("updateMood", TRUE)
       ELSE /\ last' = OtherOp("updateMood", FALSE)
            /\ UNCHANGED <<db, client>>
    /\ UNCHANGED <<pending, maxGainSeen, gainVars, evalVars, enhVars, recVars, questionVars, respVars, metricsVars, concVars>>

\* DataController.updateCharacterState: updateData = req.body
UpdateCharacterState(updateData) ==
    /\ ~pending.active
    /\ IF db.exists
       THEN /\ db' = updateCharacterState(db, updateData)
            /\ client' = SyncWithServer(db')
            /\ last' = OtherOp("updateCharacterState", TRUE)
       ELSE /\ last' = OtherOp("updateCharacterState", FALSE)
            /\ UNCHANGED <<db, client>>
    /\ UNCHANGED <<pending, maxGainSeen, gainVars, evalVars, enhVars, recVars, questionVars, respVars, metricsVars, concVars>>

\* submitExplanation up to its local updateCharacterState
SubmitExplanation(data, currentTopic) ==
    /\ ~pending.active
    /\ db.totalProblems < MaxProblems
    /\ client.totalProblems < MaxProblems
    /\ client' = LocalUpdateCharacterState(client, data.expGain, data.mood, currentTopic)
    /\ pending' = [active |-> TRUE, expGain |-> data.expGain,
                   mood |-> data.mood, topic |-> currentTopic]
    /\ last' = Op("submitExplanation", TRUE, data.expGain, currentTopic, data.quality)
    /\ UNCHANGED <<db, maxGainSeen, gainVars, evalVars, enhVars, recVars, questionVars, respVars, metricsVars, concVars>>

\* the rest of submitExplanation: addExperience if expGain > 0, then updateMood
SaveProgress ==
    /\ pending.active
    /\ LET afterExp == IF pending.expGain > 0
                       THEN addExperience(getCharacterState(db), pending.expGain, pending.topic)
                       ELSE db
           afterMood == IF pending.mood \in validMoods /\ afterExp.exists
                        THEN updateCharacterState(afterExp, [mood |-> pending.mood])
                        ELSE afterExp
       IN  /\ db' = afterMood
           /\ client' = IF afterMood.exists THEN SyncWithServer(afterMood) ELSE client
    /\ pending' = NoPending
    /\ last' = [last EXCEPT !.op = "saveProgress", !.ok = TRUE]
    /\ UNCHANGED <<maxGainSeen, gainVars, evalVars, enhVars, recVars, questionVars, respVars, metricsVars, concVars>>

\* both server calls throw; submitExplanation logs and goes on
SaveProgressFails ==
    /\ pending.active
    /\ pending' = NoPending
    /\ last' = [last EXCEPT !.op = "saveProgress", !.ok = FALSE]
    /\ UNCHANGED <<db, client, maxGainSeen, gainVars, evalVars, enhVars, recVars, questionVars, respVars, metricsVars, concVars>>

---------------------------------------------------------------------------
(* A play session: answers are submitted and chat requests validated       *)

\* characterStateSchema of the chat request
characterStateSchema(characterState) ==
    /\ characterState.level >= 1
    /\ characterState.experience >= 0
    /\ characterState.maxExp >= 1
    /\ \A t \in Topics : characterState.understanding[t] \in 0..100
    /\ characterState.mood \in validMoods
    /\ characterState.totalProblems >= 0

Abs(x) == IF x < 0 THEN 0 - x ELSE x

\* the level rule of validateBusinessRules: TRUE when the request passes
levelConsistent(characterState) ==
    LET expectedLevel == (characterState.experience \div characterState.maxExp) + 1
    IN  ~(Abs(characterState.level - expectedLevel) > 1)

\* the evaluations of a poor short answer and of an excellent long one: the
\* smallest and the largest expGain of calculateExperienceGain
SessionData ==
    { [quality |-> "poor", expGain |-> calculateExperienceGain("poor", 10),
       mood |-> determineNewMood("poor", "curious")],
      [quality |-> "excellent", expGain |-> calculateExperienceGain("excellent", 120),
       mood |-> determineNewMood("excellent", "curious")] }

\* useState's initial currentTopic
SessionTopic == "algebra"

SessionInit ==
    /\ db = createCharacterState
    /\ client = InitialCharacter
    /\ pending = NoPending
    /\ last = NoOp
    /\ maxGainSeen = 0

\* submitExplanation up to its local updateCharacterState
SessionSubmitExplanation(data) ==
    /\ ~pending.active
    /\ db.totalProblems < MaxSessionProblems
    /\ client.totalProblems < MaxSessionProblems
    /\ client' = LocalUpdateCharacterState(client, data.expGain, data.mood, SessionTopic)
    /\ pending' = [active |-> TRUE, expGain |-> data.expGain,
                   mood |-> data.mood, topic |-> SessionTopic]
    /\ last' = Op("submitExplanation", TRUE, data.expGain, SessionTopic, data.quality)
    /\ UNCHANGED <<db, maxGainSeen, gainVars, evalVars, enhVars, recVars, questionVars,
                   respVars, metricsVars, concVars>>

\* callAPI sends `character`; validateChatRequest answers 400 or passes it on
ValidateChatRequest ==
    /\ ~pending.active
    /\ last' = Op("chat", characterStateSchema(client) /\ levelConsistent(client),
                   0, SessionTopic, "none")
    /\ UNCHANGED <<db, client, pending, maxGainSeen, gainVars, evalVars, enhVars, recVars,
                   questionVars, respVars, metricsVars, concVars>>

---------------------------------------------------------------------------
(* Two addExperience calls of one user in flight at the same time          *)

\* the two requests
Requests == {1, 2}

ConcGains == {3, 30, 100}

ConcTopics == {NoTopic, "algebra", "geometry"}

\* the columns the update of addExperience names in its data
UpdatedColumns(topic) ==
    {"experience", "level", "totalProblems"}
        \cup (IF topic \in Topics THEN {UnderstandingField(topic)} ELSE {})

ConcInit ==
    /\ db = createCharacterState
    /\ client = InitialCharacter
    /\ pending = NoPending
    /\ last = NoOp
    /\ maxGainSeen = 0
    /\ calls \in [Requests -> [pc : {"start"}, expGain : ConcGains,
                                topic : ConcTopics, currentState : {NoRow}]]

\* const currentState = await this.getCharacterState(userId)
ReadCurrentState(r) ==
    /\ calls[r].pc = "start"
    /\ calls' = [calls EXCEPT ![r].pc = "read",
                              ![r].currentState = getCharacterState(db)]
    /\ UNCHANGED <<gainVars, evalVars, charVars, enhVars, recVars, questionVars,
                   respVars, metricsVars>>

\* return await this.updateCharacterState(userId, updateData), where
\* updateData was computed from the currentState read before
WriteUpdateData(r) ==
    /\ calls[r].pc = "read"
    /\ LET updated == addExperience(calls[r].currentState, calls[r].expGain,
                                     calls[r].topic)
       IN  db' = [f \in DOMAIN db |->
                     IF f \in UpdatedColumns(calls[r].topic) THEN updated[f] ELSE db[f]]
    /\ calls' = [calls EXCEPT ![r].pc = "done"]
    /\ UNCHANGED <<client, pending, last, maxGainSeen, gainVars, evalVars, enhVars,
                   recVars, questionVars, respVars, metricsVars>>

---------------------------------------------------------------------------
(* addExperience called repeatedly on a newly created character            *)

ProgressGains == {0, 3, 30, 100, LargeGain}

\* no topic, a known topic and a topic no switch case names
ProgressTopics == {NoTopic, "algebra", "calculus"}

ProgressInit ==
    /\ db = createCharacterState
    /\ client = InitialCharacter
    /\ pending = NoPending
    /\ last = NoOp
    /\ maxGainSeen = 0

ProgressAddExperience(experience, topic) ==
    /\ db.totalProblems < MaxProgressCalls
    /\ AddExperienceRequest(experience, topic)
    /\ maxGainSeen' = Max(maxGainSeen, experience)

---------------------------------------------------------------------------
(* EmotionAnalysisService, PersonalizationService, EnhancedAIService       *)

\* the order of the `emotions` array
Emotions == <<"confused", "frustrated", "confident", "curious", "excited">>

\* the keywords the modelled messages are made of (each list has 7)
emotionKeywords(emotion) ==
    CASE emotion = "confused" -> {"wakaranai"}             \* わからない
      [] emotion = "frustrated" -> {"muri"}                \* 無理
      [] emotion = "confident" -> {"wakatta"}              \* わかった
      [] emotion = "curious" -> {"naze", "omoshiroi"}      \* なぜ, 面白い
      [] emotion = "excited" -> {"omoshiroi", "tanoshii"}  \* 面白い, 楽しい

MessagePhrases ==
    UNION {emotionKeywords(Emotions[i]) : i \in 1..Len(Emotions)}

\* characters of a phrase
PhraseLength(phrase) ==
    CASE phrase = "wakaranai" -> 5
      [] phrase = "muri" -> 2
      [] phrase = "wakatta" -> 4
      [] phrase = "naze" -> 2
      [] phrase = "omoshiroi" -> 3
      [] phrase = "tanoshii" -> 3

RECURSIVE SumOfLengths(_)
SumOfLengths(phrases) ==
    IF phrases = {} THEN 0
    ELSE LET p == CHOOSE x \in phrases : TRUE
         IN  PhraseLength(p) + SumOfLengths(phrases \ {p})

\* a message: the keywords in it, its length, its ?/？ and its !/！ characters
UserMessages ==
    { m \in [includes : {inc \in SUBSET MessagePhrases : Cardinality(inc) <= MaxPhrases},
             length : {0, 9, 10, 30},
             questionMarks : 0..MaxMarks,
             exclamations : 0..MaxMarks] :
        m.length >= SumOfLengths(m.includes) + m.questionMarks + m.exclamations }

\* emotionScores after the context analysis, in tenths
emotionScores(userMessage, emotion) ==
    10 * Cardinality(emotionKeywords(emotion) \cap userMessage.includes)
    + (IF emotion = "frustrated" /\ userMessage.length < 10 THEN 5 ELSE 0)
    + (IF emotion = "curious" /\ userMessage.questionMarks > 0
       THEN 3 * userMessage.questionMarks ELSE 0)
    + (IF emotion = "confused" /\ userMessage.questionMarks > 0
       THEN 2 * userMessage.questionMarks ELSE 0)
    + (IF emotion = "excited" /\ userMessage.exclamations > 1
       THEN 3 * userMessage.exclamations ELSE 0)

\* emotions.reduce((a, b) => emotionScores[a] > emotionScores[b] ? a : b)
RECURSIVE ReduceEmotions(_, _, _)
ReduceEmotions(userMessage, a, i) ==
    IF i > Len(Emotions) THEN a
    ELSE LET b == Emotions[i]
         IN  ReduceEmotions(userMessage,
                 IF emotionScores(userMessage, a) > emotionScores(userMessage, b)
                 THEN a ELSE b,
                 i + 1)

\* analyzeUserEmotion(...).primaryEmotion
analyzeUserEmotion(userMessage) == ReduceEmotions(userMessage, Emotions[1], 2)

\* analyzeCharacterRelationship(...).trustLevel
trustLevel(conversations) == Min(conversations * 2, 100)

\* personalizeCharacterBehavior(...).mood; recentPerformance is in tenths
personalizeCharacterBehavior(conversations, userMessage, recentPerformance) ==
    LET primaryEmotion == analyzeUserEmotion(userMessage)
        byTrust == IF trustLevel(conversations) > 70 THEN "happy" ELSE "curious"
        byEmotion == IF primaryEmotion = "frustrated" THEN "supportive"
                     ELSE IF primaryEmotion = "excited" THEN "excited"
                     ELSE byTrust
    IN  IF recentPerformance > 8 THEN "proud"
        ELSE IF recentPerformance < 4 THEN "supportive"
        ELSE byEmotion

\* generateErrorResponse
generateErrorResponse == [status |-> "error", mood |-> "confused"]

NoResponse == [status |-> "none", mood |-> "none"]

\* conversations findMany returns (take: 50)
ConversationCounts == {0, 35, 36, 50}

EnhInit ==
    /\ enhReq \in [requestType : {"question", "answer"},
                   message : UserMessages,
                   conversations : ConversationCounts,
                   hasCharacterState : BOOLEAN]
    /\ enhPc = "start"
    /\ enhOut = NoResponse

EnhIdle ==
    /\ enhReq = NoValue
    /\ enhPc = "idle"
    /\ enhOut = NoResponse

\* the three analyses and the content generation have succeeded
EnhAnalyzeUser ==
    /\ enhPc = "start"
    /\ enhReq.hasCharacterState
    /\ enhPc' = "personalize"
    /\ UNCHANGED <<enhReq, enhOut, gainVars, evalVars, charVars, recVars, questionVars, respVars, metricsVars, concVars>>

\* one of them throws (always so without a character state): the outer catch
EnhAnalysisThrows ==
    /\ enhPc = "start"
    /\ enhPc' = "done"
    /\ enhOut' = generateErrorResponse
    /\ UNCHANGED <<enhReq, gainVars, evalVars, charVars, recVars, questionVars, respVars, metricsVars, concVars>>

\* personalizeCharacterBehavior(userId, request.message || '', ...) with
\* recentPerformance 0.7, and mood = characterBehavior.mood || 'curious'
EnhPersonalize ==
    /\ enhPc = "personalize"
    /\ enhPc' = "done"
    /\ enhOut' = [status |-> "ok",
                  mood |-> personalizeCharacterBehavior(
                               enhReq.conversations, enhReq.message, 7)]
    /\ UNCHANGED <<enhReq, gainVars, evalVars, charVars, recVars, questionVars, respVars, metricsVars, concVars>>

\* personalizeCharacterBehavior's own catch block
EnhPersonalizeFails ==
    /\ enhPc = "personalize"
    /\ enhPc' = "done"
    /\ enhOut' = [status |-> "ok", mood |-> "curious"]
    /\ UNCHANGED <<enhReq, gainVars, evalVars, charVars, recVars, questionVars, respVars, metricsVars, concVars>>

---------------------------------------------------------------------------
(* AdaptiveLearningService: metrics and recommendations                    *)

\* the key order of topicProficiency
TopicOrder == <<"algebra", "geometry", "functions", "probability">>

topicProficiency(characterState) ==
    [t \in Topics |-> characterState[UnderstandingField(t)]]

getDifficultyForTopic(proficiency) ==
    IF proficiency < 30 THEN "beginner"
    ELSE IF proficiency < 70 THEN "intermediate"
    ELSE "advanced"

\* without Math.max(1, ...)
calculateSuggestedDifficulty_NoFloor(sumOfProficiency, currentLevel) ==
    IF sumOfProficiency >= 80 * 4 THEN currentLevel + 1
    ELSE IF sumOfProficiency >= 60 * 4 THEN currentLevel
    ELSE currentLevel - 1

\* avgProficiency is sumOfProficiency / 4, a quotient the doubles hold
\* exactly, so avgProficiency >= 80 is sumOfProficiency >= 80 * 4
calculateSuggestedDifficulty(sumOfProficiency, currentLevel) ==
    IF sumOfProficiency >= 80 * 4 THEN currentLevel + 1
    ELSE IF sumOfProficiency >= 60 * 4 THEN currentLevel
    ELSE Max(1, currentLevel - 1)

\* Object.values(topicProficiency).reduce((a, b) => a + b, 0)
SumOfProficiency(prof) ==
    prof["algebra"] + prof["geometry"] + prof["functions"] + prof["probability"]

\* calculateLearningMetrics of an existing character state
calculateLearningMetrics(characterState) ==
    LET prof == topicProficiency(characterState)
        IsStruggling(t) == prof[t] < 30
        IsMastered(t) == prof[t] >= 80
    IN  [topicProficiency |-> prof,
         difficultyProgression |->
             [currentLevel |-> characterState.level,
              suggestedLevel |-> calculateSuggestedDifficulty(
                                     SumOfProficiency(prof), characterState.level)],
         strugglingTopics |-> SelectSeq(TopicOrder, IsStruggling),
         masteredTopics |-> SelectSeq(TopicOrder, IsMastered)]

\* the comparison is turned around: the strongest topic
RECURSIVE ReduceWeakest_Strongest(_, _, _)
ReduceWeakest_Strongest(prof, a, i) ==
    IF i > Len(TopicOrder) THEN a
    ELSE LET b == TopicOrder[i]
         IN  ReduceWeakest_Strongest(prof, IF prof[a] > prof[b] THEN a ELSE b, i + 1)

\* topics.reduce((a, b) => proficiency[a] < proficiency[b] ? a : b)
RECURSIVE ReduceWeakest(_, _, _)
ReduceWeakest(prof, a, i) ==
    IF i > Len(TopicOrder) THEN a
    ELSE LET b == TopicOrder[i]
         IN  ReduceWeakest(prof, IF prof[a] < prof[b] THEN a ELSE b, i + 1)

Recommendation(topic, difficulty, questionType) ==
    [recommendedTopic |-> topic, difficultyLevel |-> difficulty,
     questionType |-> questionType]

\* the mastered topics are pushed first
generateRecommendations_MasteredFirst(metrics) ==
    LET struggling ==
            [i \in 1..Len(metrics.strugglingTopics) |->
                Recommendation(metrics.strugglingTopics[i], "beginner", "concept")]
        weakestTopic == ReduceWeakest(metrics.topicProficiency, TopicOrder[1], 2)
        balance ==
            IF Len(metrics.strugglingTopics) = 0
            THEN <<Recommendation(weakestTopic,
                       getDifficultyForTopic(metrics.topicProficiency[weakestTopic]),
                       "application")>>
            ELSE << >>
        mastered ==
            [i \in 1..Len(metrics.masteredTopics) |->
                Recommendation(metrics.masteredTopics[i], "advanced", "problem_solving")]
        recommendations == mastered \o balance \o struggling
    IN  SubSeq(recommendations, 1, Min(3, Len(recommendations)))

\* the three blocks of generateRecommendations and the final slice(0, 3)
generateRecommendations(metrics) ==
    LET struggling ==
            [i \in 1..Len(metrics.strugglingTopics) |->
                Recommendation(metrics.strugglingTopics[i], "beginner", "concept")]
        weakestTopic == ReduceWeakest(metrics.topicProficiency, TopicOrder[1], 2)
        balance ==
            IF Len(metrics.strugglingTopics) = 0
            THEN <<Recommendation(weakestTopic,
                       getDifficultyForTopic(metrics.topicProficiency[weakestTopic]),
                       "application")>>
            ELSE << >>
        mastered ==
            [i \in 1..Len(metrics.masteredTopics) |->
                Recommendation(metrics.masteredTopics[i], "advanced", "problem_solving")]
        recommendations == struggling \o balance \o mastered
    IN  SubSeq(recommendations, 1, Min(3, Len(recommendations)))

NoRecommendations == [status |-> "none", recommendations |-> << >>]

\* the advanced steps list all four topics as prerequisites
Prerequisites_NoFilter(difficulty, topic, metrics) ==
    CASE difficulty = "beginner" -> << >>
      [] difficulty = "intermediate" -> metrics.strugglingTopics
      [] difficulty = "advanced" -> TopicOrder

\* the prerequisites of a step of each phase
Prerequisites(difficulty, topic, metrics) ==
    LET IsOther(t) == t /= topic
    IN  CASE difficulty = "beginner" -> << >>
          [] difficulty = "intermediate" -> metrics.strugglingTopics
          [] difficulty = "advanced" -> SelectSeq(TopicOrder, IsOther)

estimatedTime(difficulty) ==
    CASE difficulty = "beginner" -> 15
      [] difficulty = "intermediate" -> 20
      [] difficulty = "advanced" -> 30

\* step: path.length, without the + 1
RECURSIVE PushSteps_ZeroBased(_, _, _, _, _)
PushSteps_ZeroBased(path, topics, i, difficulty, metrics) ==
    IF i > Len(topics) THEN path
    ELSE PushSteps_ZeroBased(
             Append(path, [step |-> Len(path),
                           topic |-> topics[i],
                           difficulty |-> difficulty,
                           estimatedTime |-> estimatedTime(difficulty),
                           prerequisites |-> Prerequisites(difficulty, topics[i], metrics)]),
             topics, i + 1, difficulty, metrics)

\* one loop of generateLearningPath: path.push for topics[i], topics[i+1], ...
RECURSIVE PushSteps(_, _, _, _, _)
PushSteps(path, topics, i, difficulty, metrics) ==
    IF i > Len(topics) THEN path
    ELSE PushSteps(
             Append(path, [step |-> Len(path) + 1,
                           topic |-> topics[i],
                           difficulty |-> difficulty,
                           estimatedTime |-> estimatedTime(difficulty),
                           prerequisites |-> Prerequisites(difficulty, topics[i], metrics)]),
             topics, i + 1, difficulty, metrics)

\* s.includes(x) of an array
Includes(seq, x) == \E i \in 1..Len(seq) : seq[i] = x

generateLearningPath(metrics) ==
    LET IsDeveloping(t) == /\ ~Includes(metrics.strugglingTopics, t)
                           /\ ~Includes(metrics.masteredTopics, t)
        basics == PushSteps(<< >>, metrics.strugglingTopics, 1, "beginner", metrics)
        applied == PushSteps(basics, SelectSeq(TopicOrder, IsDeveloping), 1,
                             "intermediate", metrics)
        path == PushSteps(applied, metrics.masteredTopics, 1, "advanced", metrics)
    IN  [currentStep |-> 1, totalSteps |-> Len(path), path |-> path]

NoPath ==
    [status |-> "none",
     result |-> [currentStep |-> 0, totalSteps |-> 0, path |-> << >>]]

\* understanding values around the thresholds 30, 70 and 80
ProficiencyValues == {0, 20, 29, 30, 50, 69, 70, 79, 80, 85, 90, 100}

\* the stored rows the service is run on, and no row at all
RecRows ==
    { [createCharacterState EXCEPT
          !.understandingAlgebra = u[1], !.understandingGeometry = u[2],
          !.understandingFunctions = u[3], !.understandingProbability = u[4]] :
        u \in [1..4 -> ProficiencyValues] }
    \cup {NoRow}

RecInit ==
    /\ db \in RecRows
    /\ client = InitialCharacter
    /\ pending = NoPending
    /\ last = NoOp
    /\ maxGainSeen = 0
    /\ recOut = NoRecommendations
    /\ pathOut = NoPath

RecIdle == recOut = NoRecommendations /\ pathOut = NoPath

GenerateRecommendations ==
    /\ recOut.status = "none"
    /\ db.exists
    /\ recOut' = [status |-> "returned",
                  recommendations |-> generateRecommendations(calculateLearningMetrics(db))]
    /\ UNCHANGED <<pathOut, gainVars, evalVars, charVars, enhVars, questionVars, respVars, metricsVars, concVars>>

\* calculateLearningMetrics throws 'Character state not found'
GenerateRecommendationsThrows ==
    /\ recOut.status = "none"
    /\ ~db.exists
    /\ recOut' = [status |-> "thrown", recommendations |-> << >>]
    /\ UNCHANGED <<pathOut, gainVars, evalVars, charVars, enhVars, questionVars, respVars, metricsVars, concVars>>

GenerateLearningPath ==
    /\ pathOut.status = "none"
    /\ db.exists
    /\ pathOut' = [status |-> "returned",
                   result |-> generateLearningPath(calculateLearningMetrics(db))]
    /\ UNCHANGED <<recOut, gainVars, evalVars, charVars, enhVars, questionVars, respVars, metricsVars, concVars>>

\* calculateLearningMetrics throws 'Character state not found'
GenerateLearningPathThrows ==
    /\ pathOut.status = "none"
    /\ ~db.exists
    /\ pathOut' = [NoPath EXCEPT !.status = "thrown"]
    /\ UNCHANGED <<recOut, gainVars, evalVars, charVars, enhVars, questionVars, respVars, metricsVars, concVars>>

---------------------------------------------------------------------------
(* calculateLearningMetrics on stored rows of every kind                   *)

\* understanding values around the averages 60 and 80, and two values that
\* PUT /character can store outside 0..100
MetricsValues == {-5, 0, 59, 60, 79, 80, 100, 150}

MetricsLevels == {1, 2, 3}

MetricsRows ==
    { [createCharacterState EXCEPT
          !.level = l,
          !.understandingAlgebra = u[1], !.understandingGeometry = u[2],
          !.understandingFunctions = u[3], !.understandingProbability = u[4]] :
        u \in [1..4 -> MetricsValues], l \in MetricsLevels }
    \cup {NoRow}

NoMetrics == [status |-> "none"]

MetricsInit ==
    /\ db \in MetricsRows
    /\ client = InitialCharacter
    /\ pending = NoPending
    /\ last = NoOp
    /\ maxGainSeen = 0
    /\ metricsOut = NoMetrics

CalculateLearningMetrics ==
    /\ metricsOut.status = "none"
    /\ db.exists
    /\ metricsOut' = [status |-> "returned", metrics |-> calculateLearningMetrics(db)]
    /\ UNCHANGED <<gainVars, evalVars, charVars, enhVars, recVars, questionVars,
                   respVars, concVars>>

\* 'Character state not found'
CalculateLearningMetricsThrows ==
    /\ metricsOut.status = "none"
    /\ ~db.exists
    /\ metricsOut' = [status |-> "thrown"]
    /\ UNCHANGED <<gainVars, evalVars, charVars, enhVars, recVars, questionVars,
                   respVars, concVars>>

---------------------------------------------------------------------------
(* MathQuestionService                                                     *)

\* a word the tokenizer /[ぁ-んァ-ヶー一-龠]+/g finds, and its length
W(word, length) == [word |-> word, length |-> length]

\* questionTemplates: the words of each template, in order.  A word is named
\* after the source line and position where it first occurs.
TemplateWords(topic, difficulty, index) ==
    CASE topic = "algebra" /\ difficulty = "beginner" /\ index = 1 ->
             <<W("w16a", 10), W("w16b", 17)>>
      [] topic = "algebra" /\ difficulty = "beginner" /\ index = 2 ->
             <<W("w17a", 8), W("w17b", 11)>>
      [] topic = "algebra" /\ difficulty = "beginner" /\ index = 3 ->
             <<W("w18a", 6), W("w18b", 16)>>
      [] topic = "algebra" /\ difficulty = "beginner" /\ index = 4 ->
             <<W("w19a", 12), W("w19b", 14)>>
      [] topic = "algebra" /\ difficulty = "intermediate" /\ index = 1 ->
             <<W("w22a", 14)>>
      [] topic = "algebra" /\ difficulty = "intermediate" /\ index = 2 ->
             <<W("w23a", 5), W("w23b", 6)>>
      [] topic = "algebra" /\ difficulty = "intermediate" /\ index = 3 ->
             <<W("w24a", 13), W("w24b", 8)>>
      [] topic = "algebra" /\ difficulty = "intermediate" /\ index = 4 ->
             <<W("w25a", 3), W("w25b", 15)>>
      [] topic = "algebra" /\ difficulty = "advanced" /\ index = 1 ->
             <<W("w28a", 24)>>
      [] topic = "algebra" /\ difficulty = "advanced" /\ index = 2 ->
             <<W("w29a", 20)>>
      [] topic = "algebra" /\ difficulty = "advanced" /\ index = 3 ->
             <<W("w30a", 21)>>
      [] topic = "algebra" /\ difficulty = "advanced" /\ index = 4 ->
             <<W("w31a", 13)>>
      [] topic = "geometry" /\ difficulty = "beginner" /\ index = 1 ->
             <<W("w36a", 16), W("w36b", 2), W("w36c", 2), W("w36d", 3)>>
      [] topic = "geometry" /\ difficulty = "beginner" /\ index = 2 ->
             <<W("w37a", 12), W("w37b", 8)>>
      [] topic = "geometry" /\ difficulty = "beginner" /\ index = 3 ->
             <<W("w38a", 14), W("w38b", 11)>>
      [] topic = "geometry" /\ difficulty = "beginner" /\ index = 4 ->
             <<W("w39a", 5), W("w39b", 5)>>
      [] topic = "geometry" /\ difficulty = "intermediate" /\ index = 1 ->
             <<W("w42a", 15), W("w42b", 11)>>
      [] topic = "geometry" /\ difficulty = "intermediate" /\ index = 2 ->
             <<W("w43a", 9), W("w43b", 11)>>
      [] topic = "geometry" /\ difficulty = "intermediate" /\ index = 3 ->
             <<W("w44a", 14)>>
      [] topic = "geometry" /\ difficulty = "intermediate" /\ index = 4 ->
             <<W("w45a", 19)>>
      [] topic = "geometry" /\ difficulty = "advanced" /\ index = 1 ->
             <<W("w48a", 3), W("w48b", 3), W("w48c", 5)>>
      [] topic = "geometry" /\ difficulty = "advanced" /\ index = 2 ->
             <<W("w49a", 13)>>
      [] topic = "geometry" /\ difficulty = "advanced" /\ index = 3 ->
             <<W("w50a", 7), W("w50b", 11)>>
      [] topic = "geometry" /\ difficulty = "advanced" /\ index = 4 ->
             <<W("w51a", 20)>>
      [] topic = "functions" /\ difficulty = "beginner" /\ index = 1 ->
             <<W("w56a", 5), W("w56b", 9)>>
      [] topic = "functions" /\ difficulty = "beginner" /\ index = 2 ->
             <<W("w57a", 16)>>
      [] topic = "functions" /\ difficulty = "beginner" /\ index = 3 ->
             <<W("w58a", 5), W("w58b", 7)>>
      [] topic = "functions" /\ difficulty = "beginner" /\ index = 4 ->
             <<W("w59a", 13)>>
      [] topic = "functions" /\ difficulty = "intermediate" /\ index = 1 ->
             <<W("w62a", 4), W("w62b", 15)>>
      [] topic = "functions" /\ difficulty = "intermediate" /\ index = 2 ->
             <<W("w63a", 6), W("w63b", 11)>>
      [] topic = "functions" /\ difficulty = "intermediate" /\ index = 3 ->
             <<W("w64a", 13)>>
      [] topic = "functions" /\ difficulty = "intermediate" /\ index = 4 ->
             <<W("w65a", 8), W("w65b", 7)>>
      [] topic = "functions" /\ difficulty = "advanced" /\ index = 1 ->
             <<W("w68a", 17)>>
      [] topic = "functions" /\ difficulty = "advanced" /\ index = 2 ->
             <<W("w69a", 8), W("w69b", 8)>>
      [] topic = "functions" /\ difficulty = "advanced" /\ index = 3 ->
             <<W("w70a", 6), W("w70b", 10)>>
      [] topic = "functions" /\ difficulty = "advanced" /\ index = 4 ->
             <<W("w71a", 16)>>
      [] topic = "probability" /\ difficulty = "beginner" /\ index = 1 ->
             <<W("w76a", 5), W("w76b", 4), W("w76c", 8)>>
      [] topic = "probability" /\ difficulty = "beginner" /\ index = 2 ->
             <<W("w77a", 5), W("w77b", 10)>>
      [] topic = "probability" /\ difficulty = "beginner" /\ index = 3 ->
             <<W("w78a", 6), W("w78b", 9)>>
      [] topic = "probability" /\ difficulty = "beginner" /\ index = 4 ->
             <<W("w79a", 19)>>
      [] topic = "probability" /\ difficulty = "intermediate" /\ index = 1 ->
             <<W("w76a", 5), W("w76b", 4), W("w82c", 2), W("w82d", 6)>>
      [] topic = "probability" /\ difficulty = "intermediate" /\ index = 2 ->
             <<W("w83a", 13)>>
      [] topic = "probability" /\ difficulty = "intermediate" /\ index = 3 ->
             <<W("w84a", 12)>>
      [] topic = "probability" /\ difficulty = "intermediate" /\ index = 4 ->
             <<W("w85a", 9), W("w65b", 7)>>
      [] topic = "probability" /\ difficulty = "advanced" /\ index = 1 ->
             <<W("w88a", 13)>>
      [] topic = "probability" /\ difficulty = "advanced" /\ index = 2 ->
             <<W("w89a", 6), W("w77b", 10)>>
      [] topic = "probability" /\ difficulty = "advanced" /\ index = 3 ->
             <<W("w90a", 7), W("w90b", 9)>>
      [] topic = "probability" /\ difficulty = "advanced" /\ index = 4 ->
             <<W("w91a", 15)>>

PoolSize == 4

\* variations.length of addVariation
Variations == 4

\* the role tag of a history message.  The client tags the messages it adds
\* itself "マナ" (mana) and "ユーザー" (yuuzaa), saves them to the server as
\* "assistant" and "user", and copies msg.role as it is when it loads the
\* saved history back.
RoleTag(author, reloaded) ==
    IF author = "tutor"
    THEN IF reloaded THEN "assistant" ELSE "mana"
    ELSE IF reloaded THEN "user" ELSE "yuuzaa"

Template(topic, difficulty, index) ==
    [topic |-> topic, difficulty |-> difficulty, index |-> index]

\* the words of a message that repeats a template
TemplateContent(topic, difficulty, index) ==
    LET words == TemplateWords(topic, difficulty, index)
    IN  {words[i] : i \in 1..Len(words)}

\* author is who wrote the message; the service sees role and content only
Message(author, reloaded, content) ==
    [author |-> author, role |-> RoleTag(author, reloaded), content |-> content]

\* the messages histories are made of: the first beginner geometry question
\* as asked by the tutor (fresh and loaded back) and as typed by the user, and
\* the first intermediate probability question
HistoryMessages ==
    { Message("tutor", FALSE, TemplateContent("geometry", "beginner", 1)),
      Message("tutor", TRUE, TemplateContent("geometry", "beginner", 1)),
      Message("user", FALSE, TemplateContent("geometry", "beginner", 1)),
      Message("tutor", FALSE, TemplateContent("probability", "intermediate", 1)) }

RECURSIVE Histories(_)
Histories(n) ==
    IF n = 0 THEN { << >> }
    ELSE LET shorter == Histories(n - 1)
         IN  shorter \cup { Append(h, m) : h \in {x \in shorter : Len(x) = n - 1},
                                           m \in HistoryMessages }

\* q1: the words of the question in order; q2: the words of the message
isSimilarQuestion(q1, q2) ==
    LET IsCommon(w) == w \in q2 /\ w.length > 1
    IN  Len(SelectSeq(q1, IsCommon)) > 2

\* history.filter(role === "マナ").slice(-3)
recentQuestions(history) ==
    LET IsMana(msg) == msg.role = "mana"
        questions == SelectSeq(history, IsMana)
    IN  SubSeq(questions, Max(1, Len(questions) - 2), Len(questions))

\* the prefix of the returned question: 0 for none, else the variation chosen
adjustQuestionBasedOnHistory(question, history, variation) ==
    LET recent == recentQuestions(history)
    IN  IF \E i \in 1..Len(recent) : isSimilarQuestion(question, recent[i].content)
        THEN variation
        ELSE 0

\* the intermediate tier reaching up to 70 inclusive
questionDifficulty_Tiers(currentUnderstanding) ==
    IF currentUnderstanding < 30 THEN "beginner"
    ELSE IF currentUnderstanding <= 70 THEN "intermediate"
    ELSE "advanced"

questionDifficulty(currentUnderstanding) ==
    IF currentUnderstanding < 30 THEN "beginner"
    ELSE IF currentUnderstanding < 70 THEN "intermediate"
    ELSE "advanced"

NoQuestion ==
    [status |-> "none", variation |-> 0, template |-> Template("none", "none", 0)]

\* the question of the catch block, which is no template of any pool
genericQuestion ==
    [status |-> "returned", variation |-> 0, template |-> Template("none", "none", 0)]

QuestionTopics == Topics \cup {"calculus"}

QuestionUnderstanding == {0, 29, 30, 69, 70, 100}

QuestionInit ==
    /\ qReq \in [topic : QuestionTopics,
                 currentUnderstanding : QuestionUnderstanding,
                 conversationHistory : Histories(MaxHistory)]
    /\ qOut = NoQuestion

QuestionIdle == qReq = NoValue /\ qOut = NoQuestion

\* generateQuestion with the two Math.random() draws
GenerateQuestion(randomIndex, variation) ==
    /\ qOut.status = "none"
    /\ qReq.topic \in Topics
    /\ LET difficulty == questionDifficulty(qReq.currentUnderstanding)
           selectedQuestion == TemplateWords(qReq.topic, difficulty, randomIndex)
       IN  qOut' = [status |-> "returned",
                    variation |-> adjustQuestionBasedOnHistory(
                                      selectedQuestion, qReq.conversationHistory, variation),
                    template |-> Template(qReq.topic, difficulty, randomIndex)]
    /\ UNCHANGED <<qReq, gainVars, evalVars, charVars, enhVars, recVars,
                   respVars, metricsVars, concVars>>

\* no templates for the topic: 'Unknown topic' is thrown and caught
GenerateQuestionUnknownTopic ==
    /\ qOut.status = "none"
    /\ qReq.topic \notin Topics
    /\ qOut' = genericQuestion
    /\ UNCHANGED <<qReq, gainVars, evalVars, charVars, enhVars, recVars,
                   respVars, metricsVars, concVars>>

---------------------------------------------------------------------------
(* AnswerEvaluationService.generateResponse                                *)

\* positiveResponses.length, encouragingResponses.length and
\* confusedResponses.length
ResponsePoolSize == 5

\* the number of comments of each topic
CommentPoolSize == 3

\* the pool the switch over the quality selects
ResponsePool(quality) ==
    CASE quality = "excellent" -> "positive"
      [] quality = "good" -> "positive"
      [] quality = "average" -> "encouraging"
      [] quality = "poor" -> "confused"
      [] OTHER -> "encouraging"

\* the empty string
NoComment == [topic |-> "none", index |-> 0]

\* without the early return for poor
getTopicSpecificComment_SameForAll(topic, quality, random) ==
    IF topic \in Topics
    THEN [topic |-> topic, index |-> random]
    ELSE NoComment

getTopicSpecificComment(topic, quality, random) ==
    IF quality = "poor" THEN NoComment
    ELSE IF topic \in Topics
         THEN [topic |-> topic, index |-> random]
         ELSE NoComment

\* the reply as its parts: randomResponse, and topicComment where the reply
\* is `${randomResponse} ${topicComment}`
generateResponse(quality, topic, random1, random2) ==
    LET randomResponse == [pool |-> ResponsePool(quality), index |-> random1]
        topicComment == getTopicSpecificComment(topic, quality, random2)
    IN  IF topicComment /= NoComment
        THEN [start |-> randomResponse, appended |-> TRUE, comment |-> topicComment]
        ELSE [start |-> randomResponse, appended |-> FALSE, comment |-> NoComment]

NoReply ==
    [start |-> [pool |-> "none", index |-> 0], appended |-> FALSE, comment |-> NoComment]

RespInit ==
    /\ respReq \in [quality : Qualities, topic : QuestionTopics]
    /\ respOut = NoReply

RespIdle == respReq = NoValue /\ respOut = NoReply

MetricsIdle == metricsOut = [status |-> "none"]

ConcIdle == calls = << >>

\* generateResponse with the two Math.random() draws
GenerateResponse(random1, random2) ==
    /\ respOut = NoReply
    /\ respOut' = generateResponse(respReq.quality, respReq.topic, random1, random2)
    /\ UNCHANGED <<respReq, gainVars, evalVars, charVars, enhVars, recVars,
                   questionVars, metricsVars, concVars>>

---------------------------------------------------------------------------
(* calculateExperienceGain applied to every quality at one answer length   *)

GainIdle == gainIn = 0 /\ gainOut = [q \in {} |-> 0]

EvalIdle == evalReq = NoValue /\ evalPc = "idle" /\ evalOut = NoResult

GainInit ==
    /\ gainIn \in 0..MaxAnswerLen
    /\ gainOut = [q \in {} |-> 0]

CalculateExperienceGain(q) ==
    /\ q \notin DOMAIN gainOut
    /\ gainOut' = [p \in DOMAIN gainOut \cup {q} |->
                      IF p = q THEN calculateExperienceGain(q, gainIn) ELSE gainOut[p]]
    /\ UNCHANGED <<gainIn, evalVars, charVars, enhVars, recVars, questionVars, respVars, metricsVars, concVars>>

---------------------------------------------------------------------------
(* Specifications                                                          *)

\* calculateExperienceGain as a pure function
GainNext == \E q \in Qualities : CalculateExperienceGain(q)

GainSpecInit == GainInit /\ EvalIdle /\ CharIdle /\ EnhIdle /\ RecIdle /\ QuestionIdle
        /\ RespIdle /\ MetricsIdle /\ ConcIdle

SpecGain == GainSpecInit /\ [][GainNext]_vars

\* one evaluateAnswer call
EvalNext ==
    \/ EvaluateWithoutGemini
    \/ CallGemini
    \/ \E evaluation \in AIEvaluations : GeminiReturns(evaluation)
    \/ GeminiThrows

EvalSpecInit == EvalInit /\ GainIdle /\ CharIdle /\ EnhIdle /\ RecIdle /\ QuestionIdle
        /\ RespIdle /\ MetricsIdle /\ ConcIdle

SpecEval == EvalSpecInit /\ [][EvalNext]_vars

\* evaluateAnswer under fair scheduling: the steps the service takes itself
\* are taken once they can be; whether the awaited generateContent promise of
\* the Gemini client ever settles is up to the remote service, and no timer
\* is armed around it
SpecEvalFair ==
    /\ SpecEval
    /\ WF_vars(EvaluateWithoutGemini)
    /\ WF_vars(CallGemini)

\* the data API and the client's answer flow, from before the row exists
DataNext ==
    \/ RefreshAllData
    \/ \E experience \in DataGains, topic \in DataTopics : AddExperience(experience, topic)
    \/ \E mood \in MoodInputs : UpdateMood(mood)
    \/ \E updateData \in RawPayloads : UpdateCharacterState(updateData)
    \/ \E data \in ChatData, currentTopic \in Topics : SubmitExplanation(data, currentTopic)
    \/ SaveProgress
    \/ SaveProgressFails

DataSpecInit == CharIdle /\ GainIdle /\ EvalIdle /\ EnhIdle /\ RecIdle /\ QuestionIdle
        /\ RespIdle /\ MetricsIdle /\ ConcIdle

SpecData == DataSpecInit /\ [][DataNext]_vars

\* only addExperience, from the newly created character state
ProgressNext ==
    \E experience \in ProgressGains, topic \in ProgressTopics :
        ProgressAddExperience(experience, topic)

ProgressSpecInit == ProgressInit /\ GainIdle /\ EvalIdle /\ EnhIdle /\ RecIdle /\ QuestionIdle
        /\ RespIdle /\ MetricsIdle /\ ConcIdle

SpecProgress == ProgressSpecInit /\ [][ProgressNext]_vars

\* one processRequest call, for every request
EnhNext ==
    \/ EnhAnalyzeUser
    \/ EnhAnalysisThrows
    \/ EnhPersonalize
    \/ EnhPersonalizeFails

EnhSpecInit == EnhInit /\ GainIdle /\ EvalIdle /\ CharIdle /\ RecIdle /\ QuestionIdle
        /\ RespIdle /\ MetricsIdle /\ ConcIdle

SpecEnhanced == EnhSpecInit /\ [][EnhNext]_vars

\* one generateRecommendations call, for every stored row
RecNext ==
    \/ GenerateRecommendations
    \/ GenerateRecommendationsThrows
    \/ GenerateLearningPath
    \/ GenerateLearningPathThrows

RecSpecInit == RecInit /\ GainIdle /\ EvalIdle /\ EnhIdle /\ QuestionIdle
        /\ RespIdle /\ MetricsIdle /\ ConcIdle

SpecRecommend == RecSpecInit /\ [][RecNext]_vars

\* one generateQuestion call, for every request
QuestionNext ==
    \/ \E randomIndex \in 1..PoolSize, variation \in 1..Variations :
           GenerateQuestion(randomIndex, variation)
    \/ GenerateQuestionUnknownTopic

QuestionSpecInit ==
    QuestionInit /\ GainIdle /\ EvalIdle /\ CharIdle /\ EnhIdle /\ RecIdle
        /\ RespIdle /\ MetricsIdle /\ ConcIdle

SpecQuestion == QuestionSpecInit /\ [][QuestionNext]_vars

\* a play session on a newly created character
SessionNext ==
    \/ \E data \in SessionData : SessionSubmitExplanation(data)
    \/ SaveProgress
    \/ SaveProgressFails
    \/ ValidateChatRequest

SessionSpecInit ==
    SessionInit /\ GainIdle /\ EvalIdle /\ EnhIdle /\ RecIdle /\ QuestionIdle
        /\ RespIdle /\ MetricsIdle /\ ConcIdle

SpecSession == SessionSpecInit /\ [][SessionNext]_vars

\* the awaits of the two calls interleave in any order
ConcNext ==
    \/ \E r \in Requests : ReadCurrentState(r)
    \/ \E r \in Requests : WriteUpdateData(r)

ConcSpecInit ==
    ConcInit /\ GainIdle /\ EvalIdle /\ EnhIdle /\ RecIdle /\ QuestionIdle
        /\ RespIdle /\ MetricsIdle

SpecConcurrent == ConcSpecInit /\ [][ConcNext]_vars

\* one generateResponse call, for every quality and topic
RespNext ==
    \E random1 \in 1..ResponsePoolSize, random2 \in 1..CommentPoolSize :
        GenerateResponse(random1, random2)

RespSpecInit ==
    RespInit /\ GainIdle /\ EvalIdle /\ CharIdle /\ EnhIdle /\ RecIdle /\ QuestionIdle
        /\ MetricsIdle /\ ConcIdle

SpecResponse == RespSpecInit /\ [][RespNext]_vars

\* one calculateLearningMetrics call, for every stored row
MetricsNext ==
    \/ CalculateLearningMetrics
    \/ CalculateLearningMetricsThrows

MetricsSpecInit ==
    MetricsInit /\ GainIdle /\ EvalIdle /\ EnhIdle /\ RecIdle /\ QuestionIdle
        /\ RespIdle /\ ConcIdle

SpecMetrics == MetricsSpecInit /\ [][MetricsNext]_vars

---------------------------------------------------------------------------
(* Claims                                                                  *)

MoodOfQuality(q) ==
    CASE q = "excellent" -> "excited"
      [] q = "good" -> "happy"
      [] q = "average" -> "curious"
      [] q = "poor" -> "confused"

QualityRank(q) ==
    CASE q = "poor" -> 0
      [] q = "average" -> 1
      [] q = "good" -> 2
      [] q = "excellent" -> 3

\* C1: whenever the AI call of evaluateAnswer throws, or no AI service is
\* configured, evaluateAnswer returns the rule-based result (experienceGain in
\* 3..30, understandingImprovement in {1,3,5,8}, newMood one of the four moods)
\* and never throws to its caller.
C1_FallbackOnAIFailure ==
    /\ evalOut.status # "threw"
    /\ (evalPc = "done" /\ evalOut.aiOutcome \in {"threw", "notConfigured"}) =>
          /\ evalOut.status = "returned"
          /\ evalOut.path = "fallback"
          /\ evalOut.quality = assessAnswerQuality(evalReq.userAnswer, evalReq.topic)
          /\ evalOut.experienceGain \in 3..30
          /\ evalOut.understandingImprovement \in {1, 3, 5, 8}
          /\ evalOut.newMood \in Moods

\* the AI call threw and the caller still got the top rule-based reward
C1_Witness ==
    /\ evalPc = "done"
    /\ evalOut.aiOutcome = "threw"
    /\ evalOut.status = "returned"
    /\ evalOut.experienceGain = 30

C7_Base(q) ==
    CASE q = "excellent" -> 25
      [] q = "good" -> 15
      [] q = "average" -> 8
      [] q = "poor" -> 3

C7_Bonus(n) == IF n > 100 THEN 5 ELSE IF n > 50 /\ n <= 100 THEN 2 ELSE 0

\* C7: calculateExperienceGain(q, n) = min(30, base(q) + bonus(n)); the gain is
\* within 3..30 and, at a fixed length, non-decreasing along poor, average,
\* good, excellent.
C7_ExperienceGainTable ==
    /\ \A q \in DOMAIN gainOut :
          /\ gainOut[q] = Min(30, C7_Base(q) + C7_Bonus(gainIn))
          /\ gainOut[q] \in 3..30
    /\ \A q1, q2 \in DOMAIN gainOut :
          QualityRank(q1) <= QualityRank(q2) => gainOut[q1] <= gainOut[q2]

\* all four qualities scored at a length with the +5 bonus
C7_Witness ==
    /\ DOMAIN gainOut = Qualities
    /\ gainIn > 100
    /\ gainOut["excellent"] = 30
    /\ gainOut["poor"] = 8

---------------------------------------------------------------------------
(* Claims about the stored and the local character state                   *)

\* the last operation called CharacterService.addExperience and it returned
AddExperienceApplied ==
    \/ last.op = "addExperience" /\ last.ok
    \/ last.op = "saveProgress" /\ last.ok /\ last.expGain > 0

\* the state addExperience read: the row, or the row it created first
PreviousState == getCharacterState(last.pre)

\* C2: for every stored character state and every expGain >= 0 of any
\* magnitude, one CharacterService.addExperience call stores a level that is
\* at most the previous level + 1.
C2_LevelRisesByAtMostOne ==
    AddExperienceApplied => db.level <= PreviousState.level + 1

\* a gain of LargeGain that would have raised the level by more than one
C2_Witness ==
    /\ AddExperienceApplied
    /\ last.expGain = LargeGain
    /\ (db.experience \div 100) + 1 > PreviousState.level + 1
    /\ db.level = PreviousState.level + 1

\* C3 as stated: in every state reachable from the initial character state
\* by addExperience calls with expGain >= 0, the stored level equals
\* floor(stored experience / 100) + 1.
C3_LevelIsFunctionOfExperience ==
    db.level = (db.experience \div 100) + 1

\* C3, amended: the same, as long as no call had an expGain above 100.
C3_LevelIsFunctionOfExperienceUpTo100 ==
    maxGainSeen <= 100 => db.level = (db.experience \div 100) + 1

\* three calls of at most 100 each have taken the character to level 3
C3_Witness ==
    /\ maxGainSeen = 100
    /\ db.totalProblems >= 3
    /\ db.level = 3
    /\ db.experience >= 200

C4_StoredInRange(row) ==
    \A t \in Topics : row[UnderstandingField(t)] \in 0..100

C4_LocalInRange(character) ==
    \A t \in Topics : character.understanding[t] \in 0..100

\* C4: starting from understanding values within 0..100, after the server's
\* addExperience or the client's local updateCharacterState, with any of the
\* four topics and any expGain >= 0, every understanding value is still
\* within 0..100.
C4_UnderstandingStaysInRange ==
    /\ (AddExperienceApplied /\ C4_StoredInRange(PreviousState))
          => C4_StoredInRange(db)
    /\ (last.op = "submitExplanation" /\ C4_LocalInRange(last.preClient))
          => C4_LocalInRange(client)

\* the server's clamp has acted: the gain would have passed 100
C4_Witness ==
    /\ AddExperienceApplied
    /\ C4_StoredInRange(PreviousState)
    /\ last.topic \in Topics
    /\ PreviousState[UnderstandingField(last.topic)] + Min(5, last.expGain) > 100
    /\ db[UnderstandingField(last.topic)] = 100

\* C5: every character state stored after any sequence of data-API
\* operations is well-formed: level >= 1, experience >= 0, each topic's
\* understanding in 0..100, a mood of the four, totalProblems >= 0.
C5_StoredStateWellFormed ==
    db.exists =>
        /\ db.level >= 1
        /\ db.experience >= 0
        /\ C4_StoredInRange(db)
        /\ db.mood \in Moods
        /\ db.totalProblems >= 0

\* C6: when an answer to topic t is evaluated with quality q and the result
\* is merged into the stored state (evaluateAnswer, then
\* addExperience(expGain, t)), the stored understanding of t rises by exactly
\* the table value for q, capped at 100, and no other topic's changes.
C6_UnderstandingRisesByTableValue ==
    (last.op = "saveProgress" /\ last.ok /\ last.quality \in Qualities) =>
        \A t \in Topics :
            db[UnderstandingField(t)] =
                IF t = last.topic
                THEN Min(100, PreviousState[UnderstandingField(t)]
                                + calculateUnderstandingImprovement(last.quality))
                ELSE PreviousState[UnderstandingField(t)]

---------------------------------------------------------------------------
(* Claims about the returned moods and the recommendations                 *)

\* C9: every mood an evaluation operation returns to its caller
\* (evaluateAnswer on either path, processRequest including its error
\* response) is one of curious, happy, confused, excited.
C9_ReturnedMoodIsCharacterMood ==
    /\ (evalPc = "done" /\ evalOut.status = "returned") => evalOut.newMood \in Moods
    /\ enhPc = "done" => enhOut.mood \in Moods

\* C10: for every assignment of proficiencies to the four topics, the list
\* generateRecommendations returns has at most 3 entries and no two entries
\* have the same recommendedTopic.
C10_AtMostThreeDistinctTopics ==
    recOut.status = "returned" =>
        /\ Len(recOut.recommendations) <= 3
        /\ \A i, j \in 1..Len(recOut.recommendations) :
              recOut.recommendations[i].recommendedTopic
                  = recOut.recommendations[j].recommendedTopic => i = j

\* the proficiencies generateRecommendations worked on
C11_Proficiency == topicProficiency(db)

\* the number of topics up to TopicOrder[k] whose proficiency is in low..high
RECURSIVE C11_CountUpTo(_, _, _)
C11_CountUpTo(k, low, high) ==
    IF k = 0 THEN 0
    ELSE C11_CountUpTo(k - 1, low, high)
         + (IF C11_Proficiency[TopicOrder[k]] \in low..high THEN 1 ELSE 0)

C11_Struggling == C11_CountUpTo(4, 0, 29)

C11_Mastered == C11_CountUpTo(4, 80, 100)

\* C11: every entry for a struggling topic comes before every entry for a
\* mastered topic, an entry is left out only because 3 entries precede it in
\* generation order, and with exactly one struggling and one mastered topic
\* the result is exactly those 2 entries in that order.
C11_StrugglingBeforeMastered ==
    recOut.status = "returned" =>
        LET recs == recOut.recommendations
            balance == IF C11_Struggling = 0 THEN 1 ELSE 0
        IN  /\ \A i, j \in 1..Len(recs) :
                  (recs[i].questionType = "concept"
                     /\ recs[j].questionType = "problem_solving") => i < j
            /\ Len(recs) = Min(3, C11_Struggling + balance + C11_Mastered)
            /\ \A k \in 1..4 :
                  LET t == TopicOrder[k]
                      asStruggling == C11_CountUpTo(k, 0, 29)
                      asMastered == C11_Struggling + balance + C11_CountUpTo(k, 80, 100)
                  IN  /\ (C11_Proficiency[t] < 30 /\ asStruggling <= 3) =>
                             recs[asStruggling] = Recommendation(t, "beginner", "concept")
                      /\ (C11_Proficiency[t] >= 80 /\ asMastered <= 3) =>
                             recs[asMastered]
                                 = Recommendation(t, "advanced", "problem_solving")
            /\ (C11_Struggling = 1 /\ C11_Mastered = 1) =>
                  /\ Len(recs) = 2
                  /\ recs[1].questionType = "concept"
                  /\ recs[2].questionType = "problem_solving"

\* the scenario algebra 20, geometry 85, functions 50, probability 50
C11_Witness ==
    /\ recOut.status = "returned"
    /\ C11_Proficiency = [t \in Topics |->
          IF t = "algebra" THEN 20 ELSE IF t = "geometry" THEN 85 ELSE 50]
    /\ recOut.recommendations =
          <<Recommendation("algebra", "beginner", "concept"),
            Recommendation("geometry", "advanced", "problem_solving")>>

\* the application entries of the returned list
C12_Applications ==
    {i \in 1..Len(recOut.recommendations) :
        recOut.recommendations[i].questionType = "application"}

\* C12: an application entry is emitted iff no topic has proficiency < 30;
\* its topic has a proficiency at most that of each of the four topics, and
\* its difficulty is beginner below 30, intermediate below 70, else advanced.
C12_ApplicationForWeakest ==
    recOut.status = "returned" =>
        /\ (C12_Applications /= {}) <=> (\A t \in Topics : C11_Proficiency[t] >= 30)
        /\ \A i \in C12_Applications :
              LET r == recOut.recommendations[i]
                  p == C11_Proficiency[r.recommendedTopic]
              IN  /\ \A t \in Topics : p <= C11_Proficiency[t]
                  /\ r.difficultyLevel =
                        IF p < 30 THEN "beginner"
                        ELSE IF p < 70 THEN "intermediate" ELSE "advanced"

\* an intermediate application entry for a strictly weakest topic
C12_Witness ==
    /\ recOut.status = "returned"
    /\ C12_Applications = {1}
    /\ recOut.recommendations[1].difficultyLevel = "intermediate"
    /\ \E t \in Topics : \A u \in Topics \ {t} : C11_Proficiency[t] < C11_Proficiency[u]

\* C13: the step numbers of the path generateLearningPath returns are exactly
\* 1, 2, ..., n in list order, and totalSteps equals n, the number of steps.
C13_StepsAreContiguous ==
    pathOut.status = "returned" =>
        /\ \A i \in 1..Len(pathOut.result.path) : pathOut.result.path[i].step = i
        /\ pathOut.result.totalSteps = Len(pathOut.result.path)

\* a path with steps of all three phases
C13_Witness ==
    /\ pathOut.status = "returned"
    /\ pathOut.result.totalSteps = 4
    /\ {pathOut.result.path[i].difficulty : i \in 1..4}
           = {"beginner", "intermediate", "advanced"}
    /\ pathOut.result.path[4].step = 4

C14_Low(t) == C11_Proficiency[t] < 30

C14_High(t) == C11_Proficiency[t] >= 80

\* C14: the path has, in this order, one beginner step (15 min, no
\* prerequisites) per struggling topic, one intermediate step (20 min,
\* prerequisites = the struggling topics) per topic neither struggling nor
\* mastered, one advanced step (30 min, prerequisites = the other three
\* topics) per mastered topic; each topic is the topic of exactly one step.
C14_PathByPhase ==
    pathOut.status = "returned" =>
        LET path == pathOut.result.path
            developing == C11_CountUpTo(4, 30, 79)
        IN  /\ Len(path) = 4
            /\ \A t \in Topics : Cardinality({i \in 1..Len(path) : path[i].topic = t}) = 1
            /\ \A k \in 1..4 :
                  LET t == TopicOrder[k]
                      at == IF C14_Low(t) THEN C11_CountUpTo(k, 0, 29)
                            ELSE IF C14_High(t)
                            THEN C11_Struggling + developing + C11_CountUpTo(k, 80, 100)
                            ELSE C11_Struggling + C11_CountUpTo(k, 30, 79)
                      IsOther(u) == u /= t
                  IN  /\ path[at].topic = t
                      /\ path[at].difficulty =
                            IF C14_Low(t) THEN "beginner"
                            ELSE IF C14_High(t) THEN "advanced" ELSE "intermediate"
                      /\ path[at].estimatedTime =
                            IF C14_Low(t) THEN 15 ELSE IF C14_High(t) THEN 30 ELSE 20
                      /\ path[at].prerequisites =
                            IF C14_Low(t) THEN << >>
                            ELSE IF C14_High(t) THEN SelectSeq(TopicOrder, IsOther)
                            ELSE SelectSeq(TopicOrder, C14_Low)

\* geometry struggling, algebra developing, functions and probability mastered
C14_Witness ==
    /\ pathOut.status = "returned"
    /\ <<pathOut.result.path[1].topic, pathOut.result.path[2].topic,
         pathOut.result.path[3].topic, pathOut.result.path[4].topic>>
           = <<"geometry", "algebra", "functions", "probability">>
    /\ pathOut.result.path[2].prerequisites = <<"geometry">>
    /\ pathOut.result.path[3].prerequisites = <<"algebra", "geometry", "probability">>

---------------------------------------------------------------------------
(* Claims about the rule-based evaluation                                  *)

\* the five signals of an answer, added up
C15_Signals(answer, topic) ==
    (IF answer.wordCount > 50 THEN 2 ELSE IF answer.wordCount > 20 THEN 1 ELSE 0)
    + (IF TopicKeywords(topic) \cap answer.includes /= {} THEN 2 ELSE 0)
    + (IF exampleIndicators \cap answer.includes /= {} THEN 1 ELSE 0)
    + (IF stepIndicators \cap answer.includes /= {} THEN 1 ELSE 0)
    + (IF (politeIndicators \cup clarityIndicators) \cap answer.includes /= {}
       THEN 1 ELSE 0)

\* C15: assessAnswerQuality is a function of five signals of the answer:
\* word-count band (2/1/0), topic keyword (2), example marker (1), step
\* marker (1), politeness or clarity marker (1); excellent iff the sum is
\* >= 6, good iff 4..5, average iff 2..3, poor iff 0..1.
C15_QualityFromFiveSignals ==
    (evalPc = "done" /\ evalOut.path = "fallback") =>
        LET sum == C15_Signals(evalReq.userAnswer, evalReq.topic)
        IN  /\ evalOut.quality = "excellent" <=> sum >= 6
            /\ evalOut.quality = "good" <=> sum \in 4..5
            /\ evalOut.quality = "average" <=> sum \in 2..3
            /\ evalOut.quality = "poor" <=> sum \in 0..1

\* an answer whose signals add up to exactly 6
C15_Witness ==
    /\ evalPc = "done"
    /\ evalOut.path = "fallback"
    /\ C15_Signals(evalReq.userAnswer, evalReq.topic) = 6
    /\ evalOut.quality = "excellent"

\* C16: for the empty answer text and any of the four topics, the rule-based
\* evaluation yields quality poor, experienceGain 3, understandingImprovement
\* 1 and newMood confused.
C16_EmptyAnswerIsPoor ==
    (evalPc = "done" /\ evalOut.path = "fallback" /\ evalReq.userAnswer.length = 0) =>
        /\ evalOut.quality = "poor"
        /\ evalOut.experienceGain = 3
        /\ evalOut.understandingImprovement = 1
        /\ evalOut.newMood = "confused"

\* the scenario: the empty answer with topic geometry
C16_Witness ==
    /\ evalPc = "done"
    /\ evalOut.path = "fallback"
    /\ evalOut.status = "returned"
    /\ evalReq.userAnswer.length = 0
    /\ evalReq.topic = "geometry"
    /\ evalOut.quality = "poor"

\* C17: a topic outside {algebra, geometry, functions, probability} passed to
\* addExperience gives the caller an error outcome and leaves the stored
\* character state unchanged.
C17_UnknownTopicIsRejected ==
    (last.op = "addExperience" /\ last.topic \notin Topics \cup {NoTopic}) =>
        /\ ~last.ok
        /\ db = PreviousState

\* C18: once evaluateAnswer has started the external AI call, it eventually
\* returns a result even if the call never completes (the wait is bounded by
\* a timeout that leads to the rule-based fallback).
C18_EvaluateAnswerEventuallyReturns ==
    (evalPc = "awaitAI") ~> (evalPc = "done")

\* C19: for each of the four topics, any understanding and any history,
\* generateQuestion returns (never throws) a non-empty question that ends with
\* a template of the topic's pool at the tier of the topic's understanding:
\* beginner below 30, intermediate below 70, else advanced.
C19_QuestionFromTopicPool ==
    (qOut.status /= "none" /\ qReq.topic \in Topics) =>
        /\ qOut.status = "returned"
        /\ qOut.template.topic = qReq.topic
        /\ qOut.template.index \in 1..PoolSize
        /\ qOut.template.difficulty = "beginner" <=> qReq.currentUnderstanding < 30
        /\ qOut.template.difficulty = "intermediate" <=>
               qReq.currentUnderstanding \in 30..69
        /\ qOut.template.difficulty = "advanced" <=> qReq.currentUnderstanding >= 70
        /\ Len(TemplateWords(qOut.template.topic, qOut.template.difficulty,
                             qOut.template.index)) > 0

\* a question at understanding exactly 70, with a history that had it prefixed
C19_Witness ==
    /\ qOut.status = "returned"
    /\ qReq.topic = "probability"
    /\ qReq.currentUnderstanding = 70
    /\ qOut.template.difficulty = "advanced"
    /\ Len(qReq.conversationHistory) = MaxHistory

\* the last 3 messages of the history that the tutor wrote
C20_LastThreeOfTutor(history) ==
    LET ByTutor(msg) == msg.author = "tutor"
        written == SelectSeq(history, ByTutor)
    IN  {written[i] : i \in Max(1, Len(written) - 2)..Len(written)}

C20_SharedKeywords(template, msg) ==
    TemplateContent(template.topic, template.difficulty, template.index)
        \cap msg.content

\* C20: the returned question is the selected template prefixed by a variation
\* phrase if and only if the template shares more than 2 keywords with one of
\* the last 3 tutor-authored messages of the history; otherwise it is the
\* template unchanged.
C20_PrefixIffRepeatsRecentTutorQuestion ==
    (qOut.status /= "none" /\ qReq.topic \in Topics) =>
        /\ qOut.variation \in 0..Variations
        /\ qOut.variation /= 0 <=>
               \E msg \in C20_LastThreeOfTutor(qReq.conversationHistory) :
                   Cardinality(C20_SharedKeywords(qOut.template, msg)) > 2

\* C21: the reply of generateResponse starts with a template of the pool of
\* the quality (positive for excellent and good, encouraging for average,
\* confused for poor) and has a comment of the topic's pool appended if and
\* only if the quality is not poor and the topic is one of the four.
C21_ReplyFromPoolsOfQualityAndTopic ==
    respOut /= NoReply =>
        /\ respOut.start.index \in 1..ResponsePoolSize
        /\ respOut.start.pool =
               CASE respReq.quality \in {"excellent", "good"} -> "positive"
                 [] respReq.quality = "average" -> "encouraging"
                 [] respReq.quality = "poor" -> "confused"
        /\ respOut.appended <=> (respReq.quality /= "poor" /\ respReq.topic \in Topics)
        /\ respOut.appended =>
               /\ respOut.comment.topic = respReq.topic
               /\ respOut.comment.index \in 1..CommentPoolSize

\* a good answer on geometry: a positive reply with a geometry comment
C21_Witness ==
    /\ respReq.quality = "good"
    /\ respReq.topic = "geometry"
    /\ respOut.start.pool = "positive"
    /\ respOut.appended
    /\ respOut.comment.topic = "geometry"

C22_InRange == \A t \in Topics : topicProficiency(db)[t] \in 0..100

C22_Sum == SumOfProficiency(topicProficiency(db))

\* C22: for every level >= 1 and four proficiencies in 0..100 with sum S,
\* suggestedLevel is level + 1 if S >= 320, level if 240 <= S < 320, else
\* max(1, level - 1); so it is >= 1 and within 1 of the level.
C22_SuggestedLevelFromAverage ==
    (metricsOut.status = "returned" /\ db.level >= 1 /\ C22_InRange) =>
        LET suggestedLevel == metricsOut.metrics.difficultyProgression.suggestedLevel
        IN  /\ C22_Sum >= 320 => suggestedLevel = db.level + 1
            /\ C22_Sum \in 240..319 => suggestedLevel = db.level
            /\ (C22_Sum < 240 /\ db.level > 1) => suggestedLevel = db.level - 1
            /\ (C22_Sum < 240 /\ db.level = 1) => suggestedLevel = 1
            /\ suggestedLevel >= 1
            /\ suggestedLevel - db.level \in {-1, 0, 1}

\* level 1 with sum 239: the suggestion stays at 1
C22_Witness ==
    /\ metricsOut.status = "returned"
    /\ C22_InRange
    /\ db.level = 1
    /\ C22_Sum = 239
    /\ metricsOut.metrics.difficultyProgression.suggestedLevel = 1

\* C23: with a stored understanding outside 0..100, calculateLearningMetrics
\* does not throw and every topicProficiency it reports is within 0..100.
C23_ReportedProficiencyIsClamped ==
    (db.exists /\ metricsOut.status /= "none") =>
        /\ metricsOut.status = "returned"
        /\ \A t \in Topics : metricsOut.metrics.topicProficiency[t] \in 0..100

\* C24: a character state the client sends with a chat request after syncing
\* from a server state reached by addExperience calls with gains 3..30 passes
\* the consistency rule of the chat validation.
C24_SyncedStatePassesChatValidation ==
    (last.op = "chat" /\ client = SyncWithServer(db)) => last.ok

\* C25: a client-side updateCharacterState with expGain >= 0 and no server
\* sync since the previous one never lowers the level the client shows.
C25_ShownLevelNeverDecreases ==
    (last.op = "submitExplanation" /\ pending.active /\ last.expGain >= 0) =>
        client.level >= last.preClient.level

\* what the client showed between its optimistic update and the sync
C26_Optimistic ==
    LocalUpdateCharacterState(last.preClient, last.expGain, client.mood, last.topic)

\* C26: from the same state, the client's optimistic update with expGain g in
\* 3..30 and topic t shows the level, experience, understanding of t and
\* totalProblems that the server's addExperience(g, t) stores, so the sync
\* with the server's response changes none of them.
C26_OptimisticUpdateMatchesServer ==
    (/\ last.op = "saveProgress"
     /\ last.ok
     /\ last.expGain \in 3..30
     /\ last.preClient = SyncWithServer(PreviousState)) =>
        /\ client.level = C26_Optimistic.level
        /\ client.experience = C26_Optimistic.experience
        /\ client.understanding[last.topic] = C26_Optimistic.understanding[last.topic]
        /\ client.totalProblems = C26_Optimistic.totalProblems

\* C27: across addExperience calls with expGain >= 0 from the initial state
\* (level 1, experience 0), the stored level and experience never decrease
\* and the stored level never exceeds floor(experience / 100) + 1.
C27_LevelAndExperienceMonotone ==
    /\ db.level <= (db.experience \div 100) + 1
    /\ (last.op = "addExperience" /\ last.ok /\ last.expGain >= 0) =>
           /\ db.level >= PreviousState.level
           /\ db.experience >= PreviousState.experience

\* a call that leaves the level below floor(experience / 100) + 1, after
\* which the level still rises
C27_Witness ==
    /\ last.op = "addExperience"
    /\ last.ok
    /\ PreviousState.level = 2
    /\ PreviousState.experience >= 200
    /\ db.level = 3
    /\ db.totalProblems >= 2

\* C28: when two addExperience calls of one user with gains g1 and g2 run
\* concurrently, the stored experience ends at the initial experience
\* + g1 + g2 and totalProblems has grown by 2.
C28_NoLostUpdate ==
    (\A r \in Requests : calls[r].pc = "done") =>
        /\ db.experience =
               createCharacterState.experience + calls[1].expGain + calls[2].expGain
        /\ db.totalProblems = createCharacterState.totalProblems + 2

\* the newest message of the history generateQuestion was called with
C29_Newest == qReq.conversationHistory[Len(qReq.conversationHistory)]

\* C29: a question of the tutor that the client saved to the server and
\* loaded back into its history is still counted as a question of the tutor
\* by the repetition check of generateQuestion.
C29_ReloadedQuestionCountsAsTutors ==
    (/\ qOut.status = "returned"
     /\ Len(qReq.conversationHistory) > 0
     /\ C29_Newest = Message("tutor", TRUE, C29_Newest.content)) =>
        Includes(recentQuestions(qReq.conversationHistory), C29_Newest)

\* a prerequisite of path[i] is the topic of a step before path[i]
C30_IsEarlierStep(path, i, topic) == \E j \in 1..(i - 1) : path[j].topic = topic

\* C30: in every path generateLearningPath returns, each prerequisite of a
\* step is the topic of a strictly earlier step of the path.
C30_PrerequisitesComeEarlier ==
    pathOut.status = "returned" =>
        LET path == pathOut.result.path
        IN  \A i \in 1..Len(path) :
                \A k \in 1..Len(path[i].prerequisites) :
                    C30_IsEarlierStep(path, i, path[i].prerequisites[k])

====
